---- MODULE Spec2Model ----
\* Incremental left-join merger of NHANES component files:
\* code/merge_nhanes_any_batched.py (variant "batched") and
\* code/merge_nhanes_files.py (variant "files").
EXTENDS Integers, Sequences, FiniteSets, TLC

VARIABLES
    variant,      \* which script runs: "batched" or "files"
    dir_exists,   \* base.exists()
    listing,      \* the directory as the file system lists it: Seq of raw files
    make_csv,     \* --csv 1 / NHANES_MAKE_CSV == "1"
    fault,        \* the environment: which step of which file raises
    tie,          \* how this build's sort orders rows of equal key
    files,        \* the sorted list main() iterates over
    i,            \* 1-based position of the loop in files
    df,           \* the component being processed (None == <<>>)
    accumulator,  \* the running wide table (None == <<>>)
    tmp_parquet,  \* the checkpoint file (absent == <<>>)
    report_rows,  \* the merge report rows
    out_parquet,  \* final output files (absent == <<>>)
    out_csv,
    out_report,
    pc,           \* position of the script
    exit,         \* how the process ended
    trace,        \* the steps taken so far
    prev,         \* what the run of the other script left (<<>> before it ran)
    ret           \* the value of a direct call of read_any (<<>> before it)

vars == <<variant, dir_exists, listing, make_csv, fault, tie, files, i, df,
          accumulator, tmp_parquet, report_rows, out_parquet, out_csv,
          out_report, pc, exit, trace, prev, ret>>

-----------------------------------------------------------------------------
\* Python str, modelled as a sequence of one-character strings.

Ascii ==
    <<" ", "$", "-", ".",
      "A", "B", "C", "D", "E", "F", "G", "H", "I", "J", "K", "L", "M",
      "N", "O", "P", "Q", "R", "S", "T", "U", "V", "W", "X", "Y", "Z",
      "_",
      "a", "b", "c", "d", "e", "f", "g", "h", "i", "j", "k", "l", "m",
      "n", "o", "p", "q", "r", "s", "t", "u", "v", "w", "x", "y", "z",
      "~">>

Chars == {Ascii[k] : k \in DOMAIN Ascii}

\* code point order of the characters
Code == [c \in Chars |-> CHOOSE k \in DOMAIN Ascii : Ascii[k] = c]

UpperCase == SubSeq(Ascii, 5, 30)
LowerCase == SubSeq(Ascii, 32, 57)

lower_chr == [c \in Chars |->
    IF \E k \in DOMAIN UpperCase : UpperCase[k] = c
    THEN LowerCase[CHOOSE k \in DOMAIN UpperCase : UpperCase[k] = c]
    ELSE c]

upper_chr == [c \in Chars |->
    IF \E k \in DOMAIN LowerCase : LowerCase[k] = c
    THEN UpperCase[CHOOSE k \in DOMAIN LowerCase : LowerCase[k] = c]
    ELSE c]

lower(s) == [k \in DOMAIN s |-> lower_chr[s[k]]]

upper(s) == [k \in DOMAIN s |-> upper_chr[s[k]]]

startswith(s, p) == Len(p) <= Len(s) /\ SubSeq(s, 1, Len(p)) = p

endswith(s, p) == Len(p) <= Len(s) /\ SubSeq(s, Len(s) - Len(p) + 1, Len(s)) = p

\* sub in s
contains(s, sub) ==
    \E k \in 0..(Len(s) - Len(sub)) : SubSeq(s, k + 1, k + Len(sub)) = sub

isspace(c) == c = " "

RECURSIVE lstrip(_)
lstrip(s) == IF s # <<>> /\ isspace(s[1]) THEN lstrip(Tail(s)) ELSE s

RECURSIVE rstrip(_)
rstrip(s) ==
    IF s # <<>> /\ isspace(s[Len(s)]) THEN rstrip(SubSeq(s, 1, Len(s) - 1)) ELSE s

strip(s) == rstrip(lstrip(s))

\* str < str: lexicographic by code point
RECURSIVE str_lt(_, _)
str_lt(s, t) ==
    IF t = <<>> THEN FALSE
    ELSE IF s = <<>> THEN TRUE
    ELSE IF s[1] = t[1] THEN str_lt(Tail(s), Tail(t))
    ELSE Code[s[1]] < Code[t[1]]

\* re.sub(pat + "$", "", s) for a literal pat
sub_suffix(s, pat) ==
    IF endswith(s, pat) THEN SubSeq(s, 1, Len(s) - Len(pat)) ELSE s

\* re.sub(r"\s+", "_", s)
RECURSIVE sub_spaces(_)
sub_spaces(s) ==
    IF s = <<>> THEN <<>>
    ELSE IF isspace(s[1]) THEN <<"_">> \o sub_spaces(lstrip(s))
    ELSE <<s[1]>> \o sub_spaces(Tail(s))

\* position of the last "." of a name, 0 when there is none
rfind_dot(s) ==
    IF \E k \in DOMAIN s : s[k] = "."
    THEN CHOOSE k \in DOMAIN s : s[k] = "." /\ \A j \in DOMAIN s : j > k => s[j] # "."
    ELSE 0

\* pathlib: Path.suffix and Path.stem
path_suffix(name) ==
    LET k == rfind_dot(name)
    IN  IF 1 < k /\ k < Len(name) THEN SubSeq(name, k, Len(name)) ELSE <<>>

path_stem(name) ==
    LET k == rfind_dot(name)
    IN  IF 1 < k /\ k < Len(name) THEN SubSeq(name, 1, k - 1) ELSE name

-----------------------------------------------------------------------------
\* String literals of the two scripts.

S_clean == <<"_", "c", "l", "e", "a", "n">>
S_unclean == <<"_", "u", "n", "c", "l", "e", "a", "n">>
S_csv == <<".", "c", "s", "v">>
S_xlsx == <<".", "x", "l", "s", "x">>
S_xls == <<".", "x", "l", "s">>
S_SEQN == <<"S", "E", "Q", "N">>
S_RXDDRUG == <<"R", "X", "D", "D", "R", "U", "G">>
S_demographics == <<"d", "e", "m", "o", "g", "r", "a", "p", "h", "i", "c", "s">>
S_medication == <<"m", "e", "d", "i", "c", "a", "t", "i", "o", "n">>
S_rxq == <<"r", "x", "q">>
S_rx_ == <<"r", "x", "_">>

EXCLUDE_PREFIXES ==
    { <<"d", "i", "c", "t", "i", "o", "n", "a", "r", "y", "_">>,
      <<"n", "h", "a", "n", "e", "s", "_", "i", "n", "c", "o", "n", "s", "i", "s",
        "t", "e", "n", "c", "i", "e", "s", "_", "d", "o", "c", "u", "m", "e", "n",
        "t", "a", "t", "i", "o", "n">>,
      <<"e", "x", "a", "m", "p", "l", "e", "_">>,
      <<"m", " ", "-">>,
      <<"w", " ", "-">>,
      <<"~", "$">> }

is_excluded(name) ==
    LET lname == lower(name)
    IN  \E p \in EXCLUDE_PREFIXES : startswith(lname, p)

component_from_filename(stem) ==
    LET s0 == lower(stem)
        s1 == sub_suffix(s0, S_clean)
        s2 == sub_suffix(s1, S_unclean)
    IN  sub_spaces(strip(s2))

-----------------------------------------------------------------------------
\* pandas objects.
\*   cell      a str (sequence of characters) or NaN
\*   SEQN      an integer, or NaNKey for a missing key
\*   row       [idx |-> index label, SEQN |-> key, v |-> cells of the non-key columns]
\*   DataFrame [cols |-> names of the non-key columns, dtypes |-> their dtypes,
\*              rows |-> the rows in order]
\*   a name that is None or unbound is <<>>, a bound one is <<value>>

None == <<>>

Some(x) == <<x>>

NaN == <<"NaN">>

NaNKey == -1

max_cat == 200

Range(s) == {s[k] : k \in DOMAIN s}

\* len(df)
len(d) == Len(d.rows)

\* df.shape[1]
ncols(d) == Len(d.cols) + 1

\* RangeIndex: the labels a reader or reset_index gives
range_index(rows) == [k \in DOMAIN rows |-> [rows[k] EXCEPT !.idx = k - 1]]

\* positions of a list that satisfy keep, in order
RECURSIVE positions(_, _)
positions(n, keep) ==
    IF n = 0 THEN <<>>
    ELSE IF n \in keep THEN Append(positions(n - 1, keep), n)
    ELSE positions(n - 1, keep)

\* df[[...]] / df.drop(columns=...): the columns at the positions ks, in that order
take_columns(d, ks) ==
    [cols   |-> [k \in DOMAIN ks |-> d.cols[ks[k]]],
     dtypes |-> [k \in DOMAIN ks |-> d.dtypes[ks[k]]],
     rows   |-> [r \in DOMAIN d.rows |->
                   [d.rows[r] EXCEPT !.v = [k \in DOMAIN ks |-> d.rows[r].v[ks[k]]]]]]

Raise(e) == [ok |-> FALSE, err |-> e, df |-> None]

Return(d) == [ok |-> TRUE, err |-> "", df |-> Some(d)]

\* read_any up to and including "drop empty cols" (the same text in both scripts)
read_frame(f) ==
    LET ext == lower(path_suffix(f.name))
        key == upper(strip(f.seqn_col))
        columns == [k \in DOMAIN f.columns |-> upper(strip(f.columns[k]))]
        ambiguous == \E j, k \in DOMAIN columns : j < k /\ columns[j] = columns[k]
        keep == {k \in DOMAIN columns :
                    ~ (\A r \in DOMAIN f.rows : f.rows[r].v[k] = NaN)}
        frame == [cols   |-> columns,
                  dtypes |-> [k \in DOMAIN columns |-> "object"],
                  rows   |-> [r \in DOMAIN f.rows |->
                                [idx |-> r - 1, SEQN |-> f.rows[r].SEQN,
                                 v |-> f.rows[r].v]]]
    IN  IF ext \notin {S_csv, S_xlsx, S_xls} THEN Raise("ValueError: Unsupported file type")
        ELSE IF f.reader_error THEN Raise("reader error")
        ELSE IF key # S_SEQN THEN Raise("ValueError: No SEQN column found")
        ELSE IF ambiguous THEN Raise("ValueError: truth value of a Series is ambiguous")
        ELSE Return(take_columns(frame, positions(Len(columns), keep)))

\* df.duplicated(subset=["SEQN"]).any()  (NaN keys count as equal)
any_duplicated(rows) ==
    \E j, k \in DOMAIN rows : j < k /\ rows[j].SEQN = rows[k].SEQN

\* ascending key order, NaN last
key_lt(a, b) == a # NaNKey /\ (b = NaNKey \/ a < b)

\* df.sort_values("SEQN"): the default sort is not stable; t says where this
\* build leaves rows of equal key ("stable": source order, "reversed": reverse)
RECURSIVE sort_values(_, _)
sort_values(rows, t) ==
    IF rows = <<>> THEN <<>>
    ELSE LET r == rows[Len(rows)]
             s == sort_values(SubSeq(rows, 1, Len(rows) - 1), t)
             n == Cardinality({k \in DOMAIN s :
                      \/ key_lt(s[k].SEQN, r.SEQN)
                      \/ (t = "stable" /\ s[k].SEQN = r.SEQN)})
         IN  SubSeq(s, 1, n) \o <<r>> \o SubSeq(s, n + 1, Len(s))

\* df.drop_duplicates(subset=["SEQN"], keep="first")
drop_duplicates(rows) ==
    LET keep == {k \in DOMAIN rows : \A j \in DOMAIN rows : j < k => rows[j].SEQN # rows[k].SEQN}
        ks == positions(Len(rows), keep)
    IN  [k \in DOMAIN ks |-> rows[ks[k]]]

\* the standard deduplication of read_any
dedup(d, t) ==
    IF any_duplicated(d.rows)
    THEN [d EXCEPT !.rows = drop_duplicates(sort_values(d.rows, t))]
    ELSE d

\* ', '.join(x)
RECURSIVE join(_)
join(x) ==
    IF x = <<>> THEN <<>>
    ELSE IF Len(x) = 1 THEN x[1]
    ELSE x[1] \o <<",", " ">> \o join(Tail(x))

\* the keys of a set in ascending order (groupby sorts its groups)
RECURSIVE sorted_keys(_)
sorted_keys(S) ==
    IF S = {} THEN <<>>
    ELSE LET m == CHOOSE a \in S : \A b \in S : a <= b
         IN  <<m>> \o sorted_keys(S \ {m})

\* the medication branch joining each name once per key (as with unique())
aggregate_rxddrug_unique(d) ==
    LET c == CHOOSE k \in DOMAIN d.cols : d.cols[k] = S_RXDDRUG
        sel == take_columns(d, <<c>>)
        nn == SelectSeq(sel.rows, LAMBDA r : r.v[1] # NaN)
        keys == sorted_keys({nn[k].SEQN : k \in DOMAIN nn} \ {NaNKey})
        group(a) == SelectSeq(nn, LAMBDA r : r.SEQN = a)
        first(a) == positions(Len(group(a)),
                        {k \in DOMAIN group(a) :
                            \A j \in 1..(k - 1) : group(a)[j].v[1] # group(a)[k].v[1]})
        drugs(a) == [k \in DOMAIN first(a) |-> group(a)[first(a)[k]].v[1]]
    IN  [cols   |-> <<S_RXDDRUG>>,
         dtypes |-> <<"object">>,
         rows   |-> [k \in DOMAIN keys |->
                       [idx |-> k - 1, SEQN |-> keys[k], v |-> <<join(drugs(keys[k]))>>]]]

\* the medication branch of read_any: SEQN and RXDDRUG alone, rows without a
\* drug name dropped, one row per key with the names joined (cells are str
\* already, so astype(str) leaves them; groupby drops NaN keys)
aggregate_rxddrug(d) ==
    LET c == CHOOSE k \in DOMAIN d.cols : d.cols[k] = S_RXDDRUG
        sel == take_columns(d, <<c>>)
        nn == SelectSeq(sel.rows, LAMBDA r : r.v[1] # NaN)
        keys == sorted_keys({nn[k].SEQN : k \in DOMAIN nn} \ {NaNKey})
        group(a) == SelectSeq(nn, LAMBDA r : r.SEQN = a)
        drugs(a) == [k \in DOMAIN group(a) |-> group(a)[k].v[1]]
    IN  [cols   |-> <<S_RXDDRUG>>,
         dtypes |-> <<"object">>,
         rows   |-> [k \in DOMAIN keys |->
                       [idx |-> k - 1, SEQN |-> keys[k], v |-> <<join(drugs(keys[k]))>>]]]

is_meds_file(name) ==
    LET fname == lower(name)
    IN  contains(fname, S_medication) \/ contains(fname, S_rxq) \/ contains(fname, S_rx_)

\* read_any of merge_nhanes_files.py
read_any(f, t) ==
    LET r == read_frame(f)
    IN  IF ~ r.ok THEN r
        ELSE IF is_meds_file(f.name) /\ S_RXDDRUG \in Range(r.df[1].cols)
        THEN Return(aggregate_rxddrug(r.df[1]))
        ELSE Return(dedup(r.df[1], t))

\* read_any without its dedup step
read_any_no_dedup(f, t) == read_frame(f)

\* read_any of merge_nhanes_any_batched.py
read_any_batched(f, t) ==
    LET r == read_frame(f)
    IN  IF ~ r.ok THEN r ELSE Return(dedup(r.df[1], t))

\* the read_any the running script calls
read_any_of(v, f, t) == IF v = "files" THEN read_any(f, t) ELSE read_any_batched(f, t)

\* col.nunique(dropna=True)
nunique(d, k) == Cardinality({d.rows[r].v[k] : r \in DOMAIN d.rows} \ {NaN})

\* object columns of small cardinality become categories (cat_ratio = 0.5);
\* values are never changed
optimize_dtypes(d) ==
    [d EXCEPT !.dtypes = [k \in DOMAIN d.cols |->
        IF d.dtypes[k] = "object" /\ nunique(d, k) <= max_cat
              /\ 2 * nunique(d, k) <= len(d)
        THEN "category" ELSE d.dtypes[k]]]

suffix_non_key(d, component) ==
    [d EXCEPT !.cols = [k \in DOMAIN d.cols |-> d.cols[k] \o <<"_", "_">> \o component]]

-----------------------------------------------------------------------------
\* DataFrame.merge, to_parquet, read_parquet.

\* the right rows a left row joins with (NaN keys match each other), in order
matches(r, right) == SelectSeq(right.rows, LAMBDA q : q.SEQN = r.SEQN)

RECURSIVE left_join_rows(_, _)
left_join_rows(lrows, right) ==
    IF lrows = <<>> THEN <<>>
    ELSE LET r == lrows[1]
             m == matches(r, right)
             fill == [k \in DOMAIN right.cols |-> NaN]
             joined == IF m = <<>>
                       THEN <<[r EXCEPT !.v = r.v \o fill]>>
                       ELSE [k \in DOMAIN m |-> [r EXCEPT !.v = r.v \o m[k].v]]
         IN  joined \o left_join_rows(Tail(lrows), right)

\* column labels of left.merge(right, on="SEQN", how="left"): a name on both
\* sides gets "_x" on the left and "_y" on the right
merge_labels(left, right) ==
    LET overlap == Range(left.cols) \cap Range(right.cols)
        side(cols, sfx) == [k \in DOMAIN cols |->
            IF cols[k] \in overlap THEN cols[k] \o sfx ELSE cols[k]]
    IN  [l |-> side(left.cols, <<"_", "x">>), r |-> side(right.cols, <<"_", "y">>)]

has_duplicates(s) == \E j, k \in DOMAIN s : j < k /\ s[j] = s[k]

\* pandas raises MergeError when the suffixes make two labels of one side equal
merge_raises(left, right) ==
    LET lab == merge_labels(left, right)
    IN  \/ (has_duplicates(lab.l) /\ ~ has_duplicates(left.cols))
        \/ (has_duplicates(lab.r) /\ ~ has_duplicates(right.cols))

\* the merge as how="inner" would do it: left rows without a match are lost
merge_inner(left, right) ==
    LET lab == merge_labels(left, right)
        kept == SelectSeq(left.rows, LAMBDA r : matches(r, right) # <<>>)
    IN  [cols   |-> lab.l \o lab.r,
         dtypes |-> left.dtypes \o right.dtypes,
         rows   |-> range_index(left_join_rows(kept, right))]

\* accumulator.merge(df, on="SEQN", how="left")
merge_left(left, right) ==
    LET lab == merge_labels(left, right)
    IN  [cols   |-> lab.l \o lab.r,
         dtypes |-> left.dtypes \o right.dtypes,
         rows   |-> range_index(left_join_rows(left.rows, right))]

\* to_parquet(path, index=False): the file keeps columns, dtypes and rows, not
\* the index; pyarrow refuses duplicate column names
to_parquet_raises(d) == has_duplicates(d.cols)

to_parquet(d) ==
    [cols   |-> d.cols,
     dtypes |-> d.dtypes,
     rows   |-> [k \in DOMAIN d.rows |-> [SEQN |-> d.rows[k].SEQN, v |-> d.rows[k].v]]]

\* to_csv(path, index=False): text, so the header and the cells without dtypes
to_csv(d) ==
    [cols |-> d.cols,
     rows |-> [k \in DOMAIN d.rows |-> [SEQN |-> d.rows[k].SEQN, v |-> d.rows[k].v]]]

\* pd.read_parquet(path): a fresh frame with a RangeIndex
read_parquet(p) ==
    [cols   |-> p.cols,
     dtypes |-> p.dtypes,
     rows   |-> [k \in DOMAIN p.rows |->
                   [idx |-> k - 1, SEQN |-> p.rows[k].SEQN, v |-> p.rows[k].v]]]

-----------------------------------------------------------------------------
\* The scan of main(): glob, exclusion, sort.

patterns == << S_clean \o S_csv, S_clean \o S_xlsx, S_clean \o S_xls >>

\* base.glob("*" + patt), in the order the file system lists the directory
glob(dir, patt) == SelectSeq(dir, LAMBDA f : endswith(f.name, patt))

RECURSIVE scan(_, _)
scan(dir, patts) ==
    IF patts = <<>> THEN <<>>
    ELSE SelectSeq(glob(dir, patts[1]), LAMBDA f : ~ is_excluded(f.name))
         \o scan(dir, Tail(patts))

\* the sort key without the lower-casing of the name
sort_key_raw(f) ==
    [first |-> IF startswith(f.name, S_demographics \o S_clean) THEN 0 ELSE 1,
     lname |-> f.name]

\* the sort key: (0 if p.name.lower().startswith("demographics_clean") else 1, p.name.lower())
sort_key(f) ==
    [first |-> IF startswith(lower(f.name), S_demographics \o S_clean) THEN 0 ELSE 1,
     lname |-> lower(f.name)]

sort_key_lt(a, b) ==
    a.first < b.first \/ (a.first = b.first /\ str_lt(a.lname, b.lname))

\* sorted(files, key=...): Python's sort is stable
RECURSIVE sorted(_)
sorted(fs) ==
    IF fs = <<>> THEN <<>>
    ELSE LET f == fs[Len(fs)]
             s == sorted(SubSeq(fs, 1, Len(fs) - 1))
             n == Cardinality({k \in DOMAIN s : ~ sort_key_lt(sort_key(f), sort_key(s[k]))})
         IN  SubSeq(s, 1, n) \o <<f>> \o SubSeq(s, n + 1, Len(s))

-----------------------------------------------------------------------------
\* main(): one action per step of the script.

\* the environment makes the named step of the current file raise
Faulty(stage) == fault.at = i /\ fault.stage = stage

\* sys.exit(message): the message on stderr, status 1
SysExit(msg) ==
    /\ pc' = "exited"
    /\ exit' = Some([status |-> 1, how |-> "sys.exit", msg |-> msg])

\* an exception nobody catches: a traceback, status 1
Uncaught(exc) ==
    /\ pc' = "exited"
    /\ exit' = Some([status |-> 1, how |-> "traceback", msg |-> exc])

Log(step) == trace' = Append(trace, [step |-> step, at |-> i])

\* the loop header: the next file, or the code after the loop
NextFile ==
    /\ i' = i + 1
    /\ pc' = IF i + 1 <= Len(files) THEN "read" ELSE "final"

\* from the start of main() to the for loop
Scan ==
    /\ pc = "start"
    /\ LET found == scan(listing, patterns)
       IN  IF ~ dir_exists
           THEN SysExit("Folder not found") /\ UNCHANGED <<files, i>>
           ELSE IF found = <<>>
           THEN SysExit("No '*_clean.(csv|xlsx|xls)' files found") /\ UNCHANGED <<files, i>>
           ELSE /\ files' = sorted(found)
                /\ i' = 1
                /\ pc' = "read"
                /\ UNCHANGED exit
    /\ UNCHANGED <<variant, dir_exists, listing, make_csv, fault, tie, df, accumulator,
                   tmp_parquet, report_rows, out_parquet, out_csv, out_report,
                   trace, prev, ret>>

\* the loop with the report row appended before the try, so that a file that
\* fails to load is reported too
Read_reporting_skipped ==
    /\ pc = "read"
    /\ LET r == read_any_of(variant, files[i], tie)
           f == files[i]
           row == [component |-> component_from_filename(path_stem(f.name)),
                   file |-> f.name, rows |-> 0, cols |-> 0]
       IN  IF r.ok
           THEN /\ df' = r.df
                /\ pc' = "prepare"
                /\ Log("load")
                /\ UNCHANGED <<i, report_rows>>
           ELSE /\ NextFile
                /\ Log("skip")
                /\ report_rows' = Append(report_rows, row)
                /\ UNCHANGED df
    /\ UNCHANGED <<variant, dir_exists, listing, make_csv, fault, tie, files,
                   accumulator, tmp_parquet, out_parquet, out_csv,
                   out_report, exit, prev, ret>>

\* try: df = read_any(f)  except Exception: print("[WARN] Skipping ..."); continue
Read ==
    /\ pc = "read"
    /\ LET r == read_any_of(variant, files[i], tie)
       IN  IF r.ok
           THEN /\ df' = r.df
                /\ pc' = "prepare"
                /\ Log("load")
                /\ UNCHANGED i
           ELSE /\ NextFile
                /\ Log("skip")
                /\ UNCHANGED df
    /\ UNCHANGED <<variant, dir_exists, listing, make_csv, fault, tie, files,
                   accumulator, tmp_parquet, report_rows, out_parquet, out_csv,
                   out_report, exit, prev, ret>>

\* optimize_dtypes, suffix_non_key, report_rows.append, then start or merge
Prepare ==
    /\ pc = "prepare"
    /\ LET f == files[i]
           comp == component_from_filename(path_stem(f.name))
           d == suffix_non_key(optimize_dtypes(df[1]), comp)
           row == [component |-> comp, file |-> f.name, rows |-> len(d), cols |-> ncols(d)]
       IN  IF Faulty("optimize")
           THEN /\ Uncaught("optimize_dtypes")
                /\ UNCHANGED <<df, accumulator, report_rows, trace>>
           ELSE /\ df' = Some(d)
                /\ report_rows' = Append(report_rows, row)
                /\ IF accumulator = None
                   THEN /\ accumulator' = Some(d)
                        /\ pc' = "spill"
                        /\ Log("start")
                        /\ UNCHANGED exit
                   ELSE IF Faulty("merge") \/ merge_raises(accumulator[1], d)
                   THEN /\ Uncaught("merge")
                        /\ UNCHANGED <<accumulator, trace>>
                   ELSE /\ accumulator' = Some(merge_left(accumulator[1], d))
                        /\ pc' = "spill"
                        /\ Log("merge")
                        /\ UNCHANGED exit
    /\ UNCHANGED <<variant, dir_exists, listing, make_csv, fault, tie, files, i,
                   tmp_parquet, out_parquet, out_csv, out_report, prev, ret>>

\* the spill inside a try that logs and goes on to the next file
Spill_skipping_failure ==
    /\ pc = "spill"
    /\ IF Faulty("spill") \/ to_parquet_raises(accumulator[1])
       THEN /\ NextFile
            /\ Log("skip")
            /\ UNCHANGED <<tmp_parquet, exit>>
       ELSE /\ tmp_parquet' = Some(to_parquet(accumulator[1]))
            /\ pc' = "release"
            /\ Log("checkpoint")
            /\ UNCHANGED <<exit, i>>
    /\ UNCHANGED <<variant, dir_exists, listing, make_csv, fault, tie, files, df,
                   accumulator, report_rows, out_parquet, out_csv, out_report,
                   prev, ret>>

\* accumulator.to_parquet(tmp_parquet, index=False)
Spill ==
    /\ pc = "spill"
    /\ IF Faulty("spill") \/ to_parquet_raises(accumulator[1])
       THEN /\ Uncaught("to_parquet")
            /\ UNCHANGED <<tmp_parquet, trace>>
       ELSE /\ tmp_parquet' = Some(to_parquet(accumulator[1]))
            /\ pc' = "release"
            /\ Log("checkpoint")
            /\ UNCHANGED exit
    /\ UNCHANGED <<variant, dir_exists, listing, make_csv, fault, tie, files, i, df,
                   accumulator, report_rows, out_parquet, out_csv, out_report,
                   prev, ret>>

\* del accumulator alone: the component stays bound
Release_keeping_df ==
    /\ pc = "release"
    /\ accumulator' = None
    /\ pc' = "reload"
    /\ Log("release")
    /\ UNCHANGED <<variant, dir_exists, listing, make_csv, fault, tie, files, i, df,
                   tmp_parquet, report_rows, out_parquet, out_csv, out_report,
                   exit, prev, ret>>

\* del accumulator, df; gc.collect()
Release ==
    /\ pc = "release"
    /\ accumulator' = None
    /\ df' = None
    /\ pc' = "reload"
    /\ Log("release")
    /\ UNCHANGED <<variant, dir_exists, listing, make_csv, fault, tie, files, i,
                   tmp_parquet, report_rows, out_parquet, out_csv, out_report,
                   exit, prev, ret>>

\* accumulator = pd.read_parquet(tmp_parquet), then the next iteration
Reload ==
    /\ pc = "reload"
    /\ IF Faulty("reload")
       THEN /\ Uncaught("read_parquet")
            /\ UNCHANGED <<accumulator, i, trace>>
       ELSE /\ accumulator' = Some(read_parquet(tmp_parquet[1]))
            /\ NextFile
            /\ Log("reload")
            /\ UNCHANGED exit
    /\ UNCHANGED <<variant, dir_exists, listing, make_csv, fault, tie, files, df,
                   tmp_parquet, report_rows, out_parquet, out_csv, out_report,
                   prev, ret>>

\* the final writes, as they happen once the accumulator is a frame
WriteOutputs ==
    /\ out_parquet' = Some(to_parquet(accumulator[1]))
    /\ out_csv' = IF make_csv THEN Some(to_csv(accumulator[1])) ELSE out_csv
    /\ out_report' = Some(report_rows)
    /\ pc' = "exited"
    /\ exit' = Some([status |-> 0, how |-> "return", msg |-> "Done"])

\* after the loop in merge_nhanes_any_batched.py: no test of the accumulator
FinalBatched ==
    /\ pc = "final"
    /\ variant = "batched"
    /\ IF accumulator = None
       THEN /\ Uncaught("AttributeError: 'NoneType' object has no attribute 'to_parquet'")
            /\ UNCHANGED <<out_parquet, out_csv, out_report>>
       ELSE WriteOutputs
    /\ UNCHANGED <<variant, dir_exists, listing, make_csv, fault, tie, files, i, df,
                   accumulator, tmp_parquet, report_rows, trace, prev, ret>>

\* after the loop in merge_nhanes_files.py: exits when nothing was merged, and
\* unlinks the checkpoint at the end
FinalFiles ==
    /\ pc = "final"
    /\ variant = "files"
    /\ IF accumulator = None
       THEN /\ SysExit("No data merged. Exiting.")
            /\ UNCHANGED <<out_parquet, out_csv, out_report, tmp_parquet>>
       ELSE /\ WriteOutputs
            /\ tmp_parquet' = None
    /\ UNCHANGED <<variant, dir_exists, listing, make_csv, fault, tie, files, i, df,
                   accumulator, report_rows, trace, prev, ret>>

\* what a finished run leaves behind
Outcome ==
    [exit |-> exit, trace |-> trace, report_rows |-> report_rows,
     out_parquet |-> out_parquet, out_csv |-> out_csv, out_report |-> out_report]

\* the other script is run on the same directory, the same options and a clean
\* output location
Rerun ==
    /\ pc = "exited"
    /\ variant = "batched"
    /\ prev = None
    /\ prev' = Some(Outcome)
    /\ variant' = "files"
    /\ pc' = "start"
    /\ files' = <<>>
    /\ i' = 0
    /\ df' = None
    /\ accumulator' = None
    /\ tmp_parquet' = None
    /\ report_rows' = <<>>
    /\ out_parquet' = None
    /\ out_csv' = None
    /\ out_report' = None
    /\ exit' = None
    /\ trace' = <<>>
    /\ UNCHANGED <<dir_exists, listing, make_csv, fault, tie, ret>>

\* a direct call of read_any on one file
LoadCall ==
    /\ pc = "call"
    /\ ret' = Some(read_any_of(variant, listing[1], tie))
    /\ pc' = "returned"
    /\ UNCHANGED <<variant, dir_exists, listing, make_csv, fault, tie, files, i, df,
                   accumulator, tmp_parquet, report_rows, out_parquet, out_csv,
                   out_report, exit, trace, prev>>

-----------------------------------------------------------------------------
\* Inputs: directories of raw files.
\*   raw file [name, reader_error, seqn_col, columns, rows]: the reader raises,
\*   or yields the key column seqn_col, the other columns and the rows
\*   [SEQN |-> key, v |-> cells of the other columns]

MaxFiles == 3

MaxRows == 3

Stages == {"optimize", "merge", "spill", "reload"}

NoFault == [at |-> 0, stage |-> "optimize"]

Faults == {NoFault} \cup [at : 1..MaxFiles, stage : Stages]

TieBreaks == {"stable", "reversed"}

A == <<"A">>
B == <<"B">>
C == <<"C">>

Row(k, v) == [SEQN |-> k, v |-> v]

File(name, c) ==
    [name |-> name, reader_error |-> c.reader_error, seqn_col |-> c.seqn_col,
     columns |-> c.columns, rows |-> c.rows]

Frame(seqn_col, columns, rows) ==
    [reader_error |-> FALSE, seqn_col |-> seqn_col, columns |-> columns, rows |-> rows]

Unreadable ==
    [reader_error |-> TRUE, seqn_col |-> S_SEQN, columns |-> <<>>, rows |-> <<>>]

N_demographics == <<"D">> \o Tail(S_demographics) \o S_clean \o S_csv
N_a_csv == <<"a">> \o S_clean \o S_csv
N_a_xlsx == <<"a">> \o S_clean \o S_xlsx
N_B_csv == <<"B">> \o S_clean \o S_csv
N_rxq_csv == S_rxq \o S_clean \o S_csv
N_A_csv == <<"A">> \o S_clean \o S_csv
N_dictionary == <<"d", "i", "c", "t", "i", "o", "n", "a", "r", "y", "_", "a">> \o S_clean \o S_csv
N_a_unclean == <<"a">> \o S_unclean \o S_csv
N_a_b_xls == <<"a", " ", "b">> \o S_clean \o S_xls
N_medications_xlsx == <<"M">> \o Tail(S_medication) \o <<"s">> \o S_clean \o <<".", "X", "L", "S", "X">>
N_a_txt == <<"a">> \o S_clean \o <<".", "t", "x", "t">>

\* the directory pool of Spec: each name with the contents it may have
MainPool ==
    << [name |-> N_rxq_csv, contents |->
          { Frame(S_SEQN, <<S_RXDDRUG, <<"D", "A", "Y", "S">>>>,
                  << Row(1, <<A, C>>), Row(1, <<B, C>>), Row(2, <<NaN, C>>),
                     Row(3, <<C, C>>), Row(1, <<A, C>>) >>),
            Frame(S_SEQN, <<<<"D", "A", "Y", "S">>>>,
                  << Row(3, <<A>>), Row(3, <<B>>), Row(1, <<NaN>>) >>) }],
       [name |-> N_B_csv, contents |->
          { Frame(S_SEQN, <<<<"X">>, <<"x", " ">>>>, << Row(1, <<A, B>>) >>),
            Frame(S_SEQN, <<<<"X">>>>,
                  << Row(1, <<A>>), Row(2, <<A>>), Row(3, <<A>>), Row(4, <<A>>) >>) }],
       [name |-> N_a_xlsx, contents |->
          { Frame(S_SEQN, <<<<"x">>>>, << Row(2, <<B>>), Row(1, <<A>>) >>),
            Frame(S_SEQN, <<<<"Y">>>>, << Row(1, <<B>>) >>) }],
       [name |-> N_a_csv, contents |->
          { Frame(S_SEQN, <<<<"X">>>>, << Row(1, <<A>>), Row(4, <<B>>) >>),
            Frame(<<"I", "D">>, <<<<"X">>>>, << Row(1, <<A>>) >>),
            Frame(S_SEQN, <<<<"X">>>>,
                  << Row(3, <<A>>), Row(3, <<B>>), Row(2, <<A>>) >>) }],
       [name |-> N_demographics, contents |->
          { Frame(S_SEQN, <<<<"X">>>>,
                  << Row(2, <<A>>), Row(1, <<B>>), Row(3, <<A>>) >>),
            Frame(<<" ", "s", "e", "q", "n", " ">>, <<<<"X">>, <<"Y">>>>,
                  << Row(2, <<A, NaN>>), Row(1, <<B, NaN>>), Row(2, <<B, NaN>>),
                     Row(NaNKey, <<A, NaN>>) >>),
            Unreadable }] >>

\* the directories with the pool entries ks (ascending positions), every
\* choice of contents
RECURSIVE Directories(_, _)
Directories(pool, ks) ==
    IF ks = <<>> THEN {<<>>}
    ELSE {<<File(pool[ks[1]].name, c)>> \o rest :
            c \in pool[ks[1]].contents, rest \in Directories(pool, Tail(ks))}

MainListings ==
    UNION {Directories(MainPool, positions(Len(MainPool), S)) :
             S \in {T \in SUBSET DOMAIN MainPool : Cardinality(T) <= MaxFiles}}

InitRun ==
    /\ variant = "batched"
    /\ make_csv \in BOOLEAN
    /\ tie \in TieBreaks
    /\ files = <<>>
    /\ i = 0
    /\ df = None
    /\ accumulator = None
    /\ tmp_parquet = None
    /\ report_rows = <<>>
    /\ out_parquet = None
    /\ out_csv = None
    /\ out_report = None
    /\ pc = "start"
    /\ exit = None
    /\ trace = <<>>
    /\ prev = None
    /\ ret = None

Init ==
    /\ InitRun
    /\ \/ dir_exists = TRUE /\ listing \in MainListings
       \/ dir_exists = FALSE /\ listing = <<>>
    /\ fault \in Faults

Next ==
    \/ Scan
    \/ Read
    \/ Prepare
    \/ Spill
    \/ Release
    \/ Reload
    \/ FinalBatched
    \/ FinalFiles
    \/ Rerun

Spec == Init /\ [][Next]_vars

-----------------------------------------------------------------------------
\* SpecOrder: the scan and the loop over directories of many names, listed by
\* the file system in any order; every file is readable and nothing raises.

OrderNames ==
    {N_demographics, N_a_csv, N_A_csv, N_a_xlsx, N_B_csv, N_a_b_xls, N_rxq_csv,
     N_dictionary, N_a_unclean}

Plain == Frame(S_SEQN, <<<<"X">>>>, << Row(1, <<A>>) >>)

\* no name twice in a directory
distinct(s) == \A j, k \in DOMAIN s : j # k => s[j] # s[k]

InitOrder ==
    /\ InitRun
    /\ dir_exists = TRUE
    /\ \E m \in 0..MaxFiles : \E s \in [1..m -> OrderNames] :
          /\ distinct(s)
          /\ listing = [k \in 1..m |-> File(s[k], Plain)]
    /\ fault = NoFault

SpecOrder == InitOrder /\ [][Next]_vars

-----------------------------------------------------------------------------
\* SpecLoad: read_any called on one file, over all small contents.

LoadKeys == {NaNKey, 1, 2}

LoadCells == {A, B, NaN}

\* a row of a file with one payload column and, when extra is a cell, a
\* second column that holds extra in every row
LoadRow(extra) == {Row(k, <<c>> \o extra) : k \in LoadKeys, c \in LoadCells}

\* [name, seqn_col, payload column, second column and its cell, reader_error]
LoadShapes ==
    { [name |-> N_rxq_csv, seqn_col |-> S_SEQN, columns |-> <<S_RXDDRUG>>,
       extra |-> <<>>, reader_error |-> FALSE],
      [name |-> N_rxq_csv, seqn_col |-> <<" ", "s", "e", "q", "n">>,
       columns |-> <<<<"r", "x", "d", "d", "r", "u", "g", " ">>, <<"D", "A", "Y", "S">>>>,
       extra |-> <<C>>, reader_error |-> FALSE],
      [name |-> N_rxq_csv, seqn_col |-> S_SEQN, columns |-> <<<<"D", "A", "Y", "S">>>>,
       extra |-> <<>>, reader_error |-> FALSE],
      [name |-> N_medications_xlsx, seqn_col |-> S_SEQN,
       columns |-> <<S_RXDDRUG, <<"D", "A", "Y", "S">>>>,
       extra |-> <<NaN>>, reader_error |-> FALSE],
      [name |-> N_a_csv, seqn_col |-> S_SEQN, columns |-> <<<<"X">>>>,
       extra |-> <<>>, reader_error |-> FALSE],
      [name |-> N_a_csv, seqn_col |-> S_SEQN, columns |-> <<S_RXDDRUG, <<"Y">>>>,
       extra |-> <<C>>, reader_error |-> FALSE],
      [name |-> N_a_b_xls, seqn_col |-> <<"I", "D">>, columns |-> <<<<"X">>>>,
       extra |-> <<>>, reader_error |-> FALSE],
      [name |-> N_a_xlsx, seqn_col |-> S_SEQN, columns |-> <<<<"X">>>>,
       extra |-> <<>>, reader_error |-> TRUE],
      [name |-> N_a_txt, seqn_col |-> S_SEQN, columns |-> <<<<"X">>>>,
       extra |-> <<>>, reader_error |-> FALSE],
      [name |-> N_a_csv, seqn_col |-> S_SEQN, columns |-> <<<<"X">>, <<"x">>>>,
       extra |-> <<C>>, reader_error |-> FALSE] }

InitLoad ==
    /\ variant \in {"batched", "files"}
    /\ dir_exists = TRUE
    /\ \E sh \in LoadShapes : \E n \in 0..MaxRows : \E rows \in [1..n -> LoadRow(sh.extra)] :
          listing = << [name |-> sh.name, reader_error |-> sh.reader_error,
                        seqn_col |-> sh.seqn_col, columns |-> sh.columns,
                        rows |-> rows] >>
    /\ make_csv = FALSE
    /\ fault = NoFault
    /\ tie \in TieBreaks
    /\ files = <<>>
    /\ i = 0
    /\ df = None
    /\ accumulator = None
    /\ tmp_parquet = None
    /\ report_rows = <<>>
    /\ out_parquet = None
    /\ out_csv = None
    /\ out_report = None
    /\ pc = "call"
    /\ exit = None
    /\ trace = <<>>
    /\ prev = None
    /\ ret = None

NextLoad == LoadCall

SpecLoad == InitLoad /\ [][NextLoad]_vars

-----------------------------------------------------------------------------
\* Properties.

\* the file loads in the running script
Loads(f) == read_any_of(variant, f, tie).ok

\* the frame the running script's loader returns for a file that loads
Loaded(f) == read_any_of(variant, f, tie).df[1]

\* the files of the run that load, in processing order
LoadedFiles == SelectSeq(files, Loads)

KeySeq(rows) == [k \in DOMAIN rows |-> rows[k].SEQN]

\* the key column of the first component that loads
AnchorKeys == KeySeq(Loaded(LoadedFiles[1]).rows)

\* every table the run holds or has written
Tables ==
    {t[1] : t \in {accumulator, tmp_parquet, out_parquet, out_csv} \ {None}}

Steps(step) == {k \in DOMAIN trace : trace[k].step = step}

\* C1: in every run in which a component loads, the accumulator, the
\* checkpoint and the final outputs always have the key column of the first
\* loaded component: the same rows in the same order, no key of a later
\* component added, no anchor key dropped or repeated.
C1_LeftJoinRowInvariant ==
    Tables # {} =>
        /\ LoadedFiles # <<>>
        /\ LET anchor == AnchorKeys
           IN  /\ ~ has_duplicates(anchor)
               /\ \A t \in Tables : KeySeq(t.rows) = anchor

\* a finished run with two merges in which a later component has a key the
\* anchor lacks and lacks a key the anchor has
C1_Witness ==
    /\ pc = "exited"
    /\ out_parquet # None
    /\ Cardinality(Steps("merge")) >= 2
    /\ \E k \in 2..Len(LoadedFiles) :
          LET keys == Range(KeySeq(Loaded(LoadedFiles[k]).rows))
          IN  /\ keys \ Range(AnchorKeys) # {}
              /\ Range(AnchorKeys) \ keys # {}

\* C2: when files are found and none loads, the run ends with a non-zero
\* status and a diagnostic message of the script, and writes no final output.
C2_EmptyMergeFailure ==
    (pc = "exited" /\ files # <<>> /\ LoadedFiles = <<>>) =>
        /\ exit[1].status # 0
        /\ exit[1].how = "sys.exit"
        /\ out_parquet = None /\ out_csv = None /\ out_report = None

\* the names <original>__<component> of the components processed so far
Namespaced ==
    UNION {{c \o <<"_", "_">> \o component_from_filename(path_stem(files[k].name)) :
              c \in Range(Loaded(files[k]).cols)} :
           k \in {j \in DOMAIN files : j <= i /\ Loads(files[j])}}

\* C5: the columns of the accumulator never share a name, and each non-key
\* column is named <original>__<component> for a processed component.
C5_ColumnNamespace ==
    accumulator # None =>
        /\ ~ has_duplicates(accumulator[1].cols)
        /\ Range(accumulator[1].cols) \subseteq Namespaced

StageError ==
    [optimize |-> "optimize_dtypes", merge |-> "merge", spill |-> "to_parquet",
     reload |-> "read_parquet"]

\* the environment's fault is met: its file loads, and for the merge there is
\* an accumulator to merge into
FaultStrikes ==
    /\ fault.at \in DOMAIN files
    /\ Loads(files[fault.at])
    /\ fault.stage = "merge" => \E j \in 1..(fault.at - 1) : Loads(files[j])

\* the report rows of the files that load: component and file name, in order
ReportOf(fs, rows) ==
    /\ Len(rows) = Len(fs)
    /\ \A k \in DOMAIN fs :
          /\ rows[k].component = component_from_filename(path_stem(fs[k].name))
          /\ rows[k].file = fs[k].name

\* C3: a file that fails in the loader is skipped and leaves the accumulator,
\* the checkpoint and the report as they were; a run in which k >= 1 files
\* load and no step outside the loaders fails exits with status 0 and its report has
\* exactly the k loaded components, in processing order.
C3_SkipOnBadFile ==
    /\ [][(pc = "read" /\ ~ Loads(files[i])) =>
             /\ accumulator' = accumulator
             /\ tmp_parquet' = tmp_parquet
             /\ report_rows' = report_rows
             /\ i' = i + 1
             /\ pc' \in {"read", "final"}
             /\ exit' = None]_vars
    /\ [](pc \in {"read", "final"} =>
             ReportOf(SelectSeq(SubSeq(files, 1, i - 1), Loads), report_rows))
    /\ []((pc = "exited" /\ ~ FaultStrikes /\ LoadedFiles # <<>>) =>
             /\ exit[1].status = 0
             /\ out_report # None
             /\ ReportOf(LoadedFiles, out_report[1]))

\* a successful run that skipped a file between two files that load
C3_Witness ==
    /\ pc = "exited"
    /\ exit[1].status = 0
    /\ Len(files) = 3
    /\ Loads(files[1]) /\ ~ Loads(files[2]) /\ Loads(files[3])
    /\ Len(out_report[1]) = 2

\* C4 as stated: no run is terminated by a failure of dtype optimization, the
\* merge, the checkpoint write or the checkpoint reload of a component.
C4_OtherFailuresSkipped ==
    pc = "exited" =>
        ~ (exit[1].how = "traceback" /\ exit[1].msg \in Range(<<"optimize_dtypes", "merge", "to_parquet", "read_parquet">>))

\* C4 amended: a failure of dtype optimization, the merge, the checkpoint
\* write or the checkpoint reload is not caught. It ends the run at that
\* file with a traceback and status 1, no later file is read and no final
\* output is written. Only files that fail in the loader are skipped.
C4_OtherFailuresFatal ==
    /\ (pc = "exited" /\ FaultStrikes) =>
          /\ exit[1] = [status |-> 1, how |-> "traceback", msg |-> StageError[fault.stage]]
          /\ i = fault.at
          /\ \A k \in DOMAIN trace : trace[k].at <= fault.at
          /\ out_parquet = None /\ out_csv = None /\ out_report = None
    /\ \A k \in Steps("skip") : ~ Loads(files[trace[k].at])

\* the checkpoint write of the second of three files failed
C4_Witness ==
    /\ pc = "exited"
    /\ fault = [at |-> 2, stage |-> "spill"]
    /\ Len(files) = 3
    /\ FaultStrikes
    /\ exit[1].msg = "to_parquet"

\* the steps that follow the load of a component, in order
AfterLoad == << {"start", "merge"}, {"checkpoint"}, {"release"}, {"reload"} >>

\* C9: every loaded component is followed, before any other file is read, by
\* the write of the full accumulator to the checkpoint, the release of the
\* accumulator and the component, and the reload from the checkpoint; at the
\* start of every iteration (and after the loop) the script holds no
\* component and at most the accumulator, equal to the checkpoint.
C9_CheckpointTurnTaking ==
    /\ \A p \in Steps("load") : \A q \in DOMAIN AfterLoad :
          /\ p + q <= Len(trace) =>
                trace[p + q].step \in AfterLoad[q] /\ trace[p + q].at = trace[p].at
          /\ pc \in {"read", "final"} => p + q <= Len(trace)
    /\ pc = "release" => tmp_parquet = Some(to_parquet(accumulator[1]))
    /\ pc = "reload" => accumulator = None /\ df = None
    /\ pc \in {"read", "final"} =>
          /\ df = None
          /\ IF Steps("load") = {}
             THEN accumulator = None /\ tmp_parquet = None
             ELSE /\ accumulator # None /\ tmp_parquet # None
                  /\ accumulator[1] = read_parquet(tmp_parquet[1])
                  /\ to_parquet(accumulator[1]) = tmp_parquet[1]

\* the third iteration starts after two components were merged and reloaded
C9_Witness ==
    /\ pc = "read"
    /\ i = 3
    /\ Cardinality(Steps("reload")) = 2
    /\ accumulator # None

\* the raw file is named like a medication file and has an RXDDRUG column
MedicationWithDrug(f) ==
    /\ is_meds_file(f.name)
    /\ \E k \in DOMAIN f.columns : upper(strip(f.columns[k])) = S_RXDDRUG

IsAnchor(f) == startswith(lower(f.name), S_demographics \o S_clean)

\* where the directory scan returned the file
ScanPosition(f) ==
    CHOOSE p \in DOMAIN scan(listing, patterns) : scan(listing, patterns)[p] = f

\* the files the loop has read so far
ReadSoFar == SelectSeq(trace, LAMBDA e : e.step \in {"load", "skip"})

\* each file is read once, in list order
ReadOnceInOrder ==
    /\ \A k \in DOMAIN ReadSoFar : ReadSoFar[k].at = k
    /\ (pc = "exited" /\ files # <<>>) => Len(ReadSoFar) = Len(files)

\* C6 as stated: anchor files come before all others and the files are in
\* strictly increasing order of their lower-cased names, so that the order is
\* a function of the set of names; each file is read once.
C6_ProcessingOrder ==
    /\ \A j, k \in DOMAIN files : j < k =>
          /\ IsAnchor(files[k]) => IsAnchor(files[j])
          /\ IsAnchor(files[j]) = IsAnchor(files[k]) =>
                str_lt(lower(files[j].name), lower(files[k].name))
    /\ ReadOnceInOrder

\* C6 amended: anchor files come first and the files follow in lexicographic
\* order of their lower-cased names; files whose lower-cased names are equal
\* keep the order in which the directory scan returned them; the list holds
\* each scanned file once and each file is read once.
C6_ProcessingOrderUpToCase ==
    /\ \A j, k \in DOMAIN files : j < k =>
          /\ IsAnchor(files[k]) => IsAnchor(files[j])
          /\ IsAnchor(files[j]) = IsAnchor(files[k]) =>
                ~ str_lt(lower(files[k].name), lower(files[j].name))
          /\ lower(files[j].name) = lower(files[k].name) =>
                ScanPosition(files[j]) < ScanPosition(files[k])
    /\ files # <<>> =>
          /\ Range(files) = Range(scan(listing, patterns))
          /\ Len(files) = Len(scan(listing, patterns))
    /\ ReadOnceInOrder

\* a finished run over the anchor and two files whose names differ in case
\* only, listed by the file system in another order than they were read
C6_Witness ==
    /\ pc = "exited"
    /\ exit[1].status = 0
    /\ Len(files) = 3
    /\ IsAnchor(files[1])
    /\ lower(files[2].name) = lower(files[3].name)
    /\ listing # files

\* the file read_any was called on
Source == listing[1]

\* the frame is one the medication branch takes: the name is a medication
\* name and the frame, empty columns dropped, has an RXDDRUG column
TakesMedicationBranch ==
    /\ variant = "files"
    /\ read_frame(Source).ok
    /\ is_meds_file(Source.name)
    /\ S_RXDDRUG \in Range(read_frame(Source).df[1].cols)

\* the non-null cells of the source's RXDDRUG column in the rows of key a
DrugsOf(a) ==
    LET c == CHOOSE k \in DOMAIN Source.columns : upper(strip(Source.columns[k])) = S_RXDDRUG
        rows == SelectSeq(Source.rows, LAMBDA r : r.SEQN = a /\ r.v[c] # NaN)
    IN  [k \in DOMAIN rows |-> rows[k].v[c]]

\* the names separated by ", ", built from the last name backwards
RECURSIVE CommaSeparated(_)
CommaSeparated(x) ==
    IF Len(x) = 0 THEN <<>>
    ELSE IF Len(x) = 1 THEN x[1]
    ELSE CommaSeparated(SubSeq(x, 1, Len(x) - 1)) \o <<",", " ">> \o x[Len(x)]

C8_OneRowPerSourceKey ==
    (pc = "returned" /\ ret[1].ok /\ NaNKey \notin Range(KeySeq(Source.rows))) =>
        LET rows == ret[1].df[1].rows
            sorted_rows == sort_values(read_frame(Source).df[1].rows, tie)
        IN  /\ ~ has_duplicates(KeySeq(rows))
            /\ Range(KeySeq(rows)) = Range(KeySeq(Source.rows))
            /\ (~ TakesMedicationBranch /\ any_duplicated(Source.rows)) =>
                  \A k \in DOMAIN rows :
                     \E p \in DOMAIN sorted_rows :
                        /\ sorted_rows[p] = rows[k]
                        /\ \A q \in 1..(p - 1) : sorted_rows[q].SEQN # rows[k].SEQN

\* C8 on the dedup path alone (it holds there)
C8_DedupPath == TakesMedicationBranch \/ C8_OneRowPerSourceKey

====
